---- MODULE Spec2Model ----
(***************************************************************************)
(* telegram_upload/upload_files.py: the upload pipelines (RecursiveFiles,  *)
(* NoDirectoriesFiles, NoLargeFiles, SplitFiles), the units they produce   *)
(* (File, SplitFile), the read/seek contract of a SplitFile slice, the     *)
(* properties of a unit and is_valid_file.                                 *)
(*                                                                         *)
(* A path is the sequence of its components, a byte of a file is its       *)
(* offset in the file, and a Python str that the code formats is a         *)
(* sequence of one-character strings.                                      *)
(***************************************************************************)
EXTENDS Integers, Sequences, FiniteSets, TLC

\* ------------------------------------------------------------------ bounds
MaxSize == 4
MaxFiles == 2
MaxPulls == 4
MaxOps == 3

\* ------------------------------------------------------------- file system
\* The tree os.path.isdir, os.path.getsize and scantree look at.
Dirs == { <<"a">>, <<"a", "b">>, <<"e">> }

PlainFiles == { <<"a", "x.txt">>, <<"a", "b", "y.txt">>, <<"f.bin">>, <<"g.bin">> }

\* The order in which os.scandir lists the entries (any fixed order).
Listing == << <<"a">>, <<"a", "b">>, <<"a", "b", "y.txt">>, <<"a", "x.txt">>,
              <<"e">>, <<"f.bin">>, <<"g.bin">> >>

\* The files handed to the size-policy pipelines.
SizedFiles == { <<"f.bin">>, <<"g.bin">> }

isdir(p) == p \in Dirs

basename(p) == p[Len(p)]

IsChild(q, p) == Len(q) = Len(p) + 1 /\ SubSeq(q, 1, Len(p)) = p

scandir(p) == SelectSeq(Listing, LAMBDA q : IsChild(q, p))

\* telegram_upload.utils.scantree(path, follow_symlinks): every entry below
\* path that is no directory; a directory entry is walked, never yielded.
RECURSIVE scantree(_)
scantree(path) ==
    LET ch == scandir(path)
        walk[k \in 0..Len(ch)] ==
            IF k = 0 THEN <<>>
            ELSE walk[k - 1] \o (IF isdir(ch[k]) THEN scantree(ch[k]) ELSE <<ch[k]>>)
    IN  walk[Len(ch)]

\* ------------------------------------------------------------------- state
VARIABLES
    cls,        \* the pipeline's class
    files,      \* self.files
    client,     \* self.client: [max_file_size]
    thumbnail,  \* self.thumbnail
    force_file, \* self.force_file
    caption,    \* self.caption: [isNone, v]
    fsize,      \* what os.path.getsize returns for each sized file
    iterator,   \* self._iterator: the generator and where it stands
    out,        \* what each __next__ of the current pass returned or raised
    source,     \* self.files when it is a pipeline: [cls, files, iterator]
    restarted,  \* the pass began with an iter() that cut a pass short
    sf,         \* a unit (File or SplitFile) and its fields
    win,        \* the file and the part sf is a slice of: [T, M, part]
    pc,         \* where the unit is in its life ("pipeline" when there is none)
    hist        \* what the calls on sf did so far

vars == << cls, files, client, thumbnail, force_file, caption, fsize, iterator,
           out, source, restarted, sf, win, pc, hist >>

pipeVars == << cls, files, client, thumbnail, force_file, caption, fsize, iterator, out,
              source, restarted >>

sliceVars == << sf, win, pc, hist >>

NoneCaption == [isNone |-> TRUE, v |-> <<>>]

NoPath == <<>>

NoneBool == [isNone |-> TRUE, v |-> FALSE]

NoneThumb == [kind |-> "None", path |-> NoPath]

\* The fields of a unit (File or SplitFile); NoUnit stands where none was made.
NoUnit == [cls |-> "", path |-> NoPath, force_file |-> FALSE, thumbnail |-> NoneThumb,
           caption |-> NoneCaption, pos |-> 0, max_read_size |-> 0,
           remaining_size |-> 0, name |-> <<>>]

getsize(p) == fsize[p]

\* ------------------------------------------------------------------ strings
DigitChar == <<"0", "1", "2", "3", "4", "5", "6", "7", "8", "9">>

\* str(n) for n >= 0
RECURSIVE str(_)
str(n) == IF n < 10 THEN <<DigitChar[n + 1]>> ELSE str(n \div 10) \o <<DigitChar[(n % 10) + 1]>>

\* s.zfill(width)
RECURSIVE str_zfill(_, _)
str_zfill(s, width) == IF Len(s) >= width THEN s ELSE str_zfill(<<"0">> \o s, width)

\* int(math.log10(10)) + 1
zfill == 2

\* the name of a part with its index as it is, not filled
PartName_nofill(file_name, part) == <<file_name, ".">> \o str(part)

\* '{}.{}'.format(file_name, str(part).zfill(zfill))
PartName(file_name, part) == <<file_name, ".">> \o str_zfill(str(part), zfill)

\* -------------------------------------------------------------------- File
\* fields whose force_file forgets the class's force_file
File_fields_noclass(class_force_file, path, force, thumb, cap) ==
    [cls |-> "File", path |-> path,
     force_file |-> IF force.isNone THEN FALSE ELSE force.v,
     thumbnail |-> thumb, caption |-> cap, pos |-> 0,
     max_read_size |-> 0, remaining_size |-> 0, name |-> <<>>]

\* File.__init__, lines 146-150: the path is opened (position 0) and the
\* arguments are kept; force_file None leaves the class's force_file.
File_fields(class_force_file, path, force, thumb, cap) ==
    [cls |-> "File", path |-> path,
     force_file |-> IF force.isNone THEN class_force_file ELSE force.v,
     thumbnail |-> thumb, caption |-> cap, pos |-> 0,
     max_read_size |-> 0, remaining_size |-> 0, name |-> <<>>]

\* File.__init__: line 152 encodes the caption, which raises AttributeError
\* when the caption is None (str.encode and bytes.decode give the str back).
File__init__(class_force_file, path, force, thumb, cap) ==
    IF cap.isNone
    THEN [raised |-> "AttributeError", obj |-> NoUnit]
    ELSE [raised |-> "", obj |-> File_fields(class_force_file, path, force, thumb, cap)]

\* SplitFile.__init__, lines 211-213: the three fields of the slice
SplitFile_fields(base, max_read_size, name) ==
    [base EXCEPT !.cls = "SplitFile",
                 !.max_read_size = max_read_size,
                 !.remaining_size = max_read_size,
                 !.name = name]

\* SplitFile.__init__: File.__init__(client, file) with every other argument
\* left at its default (force_file, thumbnail and caption None), then the
\* fields of the slice.
SplitFile__init__(file, max_read_size, name) ==
    LET r == File__init__(TRUE, file, NoneBool, NoneThumb, NoneCaption)
    IN  IF r.raised # "" THEN r
        ELSE [raised |-> "", obj |-> SplitFile_fields(r.obj, max_read_size, name)]

\* FileIO.read(size) at position pos of a file of T bytes: the bytes from pos
\* on, at most size of them, all of them to the end when size is negative.
FileIO_read(pos, T, size) ==
    LET avail == IF pos >= T THEN 0 ELSE T - pos
        n == IF size < 0 THEN avail ELSE IF size < avail THEN size ELSE avail
    IN  [k \in 1..n |-> pos + k - 1]

SEEK_SET == 0
SEEK_CUR == 1
SEEK_END == 2

\* FileIO.seek(offset, whence): the new position, or OSError when it is negative.
FileIO_seek(pos, T, offset, whence) ==
    LET base == IF whence = SEEK_SET THEN 0 ELSE IF whence = SEEK_CUR THEN pos ELSE T
        to == base + offset
    IN  IF to < 0 THEN [raised |-> "OSError", pos |-> pos] ELSE [raised |-> "", pos |-> to]

\* read without the clamp to remaining_size
SplitFile_read_unclamped(s, T, size) ==
    LET size1 == IF size = -1 THEN s.remaining_size ELSE size
    IN  IF s.remaining_size = 0
        THEN [obj |-> s, data |-> <<>>]
        ELSE LET data == FileIO_read(s.pos, T, size1)
             IN  [obj |-> [s EXCEPT !.remaining_size = s.remaining_size - size1,
                                    !.pos = s.pos + Len(data)],
                  data |-> data]

\* SplitFile.read(size)
SplitFile_read(s, T, size) ==
    LET size1 == IF size = -1 THEN s.remaining_size ELSE size
    IN  IF s.remaining_size = 0
        THEN [obj |-> s, data |-> <<>>]
        ELSE LET size2 == IF s.remaining_size < size1 THEN s.remaining_size ELSE size1
                 data == FileIO_read(s.pos, T, size2)
             IN  [obj |-> [s EXCEPT !.remaining_size = s.remaining_size - size2,
                                    !.pos = s.pos + Len(data)],
                  data |-> data]

\* SplitFile.readall()
SplitFile_readall(s, T) == SplitFile_read(s, T, -1)

\* seek that never moves remaining_size
SplitFile_seek_norecompute(s, T, offset, whence, split_seek) ==
    LET r == FileIO_seek(s.pos, T, offset, whence)
    IN  [raised |-> r.raised, obj |-> [s EXCEPT !.pos = r.pos]]

\* seek that moves remaining_size the wrong way
SplitFile_seek_reversed(s, T, offset, whence, split_seek) ==
    LET rem == IF ~split_seek THEN s.remaining_size + (offset - s.pos) ELSE s.remaining_size
        r == FileIO_seek(s.pos, T, offset, whence)
    IN  [raised |-> r.raised, obj |-> [s EXCEPT !.remaining_size = rem, !.pos = r.pos]]

\* SplitFile.seek(offset, whence, split_seek): remaining_size is moved by
\* tell() - offset before FileIO.seek runs (and stays moved when that raises).
SplitFile_seek(s, T, offset, whence, split_seek) ==
    LET rem == IF ~split_seek THEN s.remaining_size + (s.pos - offset) ELSE s.remaining_size
        r == FileIO_seek(s.pos, T, offset, whence)
    IN  [raised |-> r.raised, obj |-> [s EXCEPT !.remaining_size = rem, !.pos = r.pos]]

\* file_size of a slice that reads the size of the path on disk
SplitFile_file_size_ondisk(s) == getsize(s.path)

\* SplitFile.file_size
SplitFile_file_size(s) == s.max_read_size

\* ---------------------------------------------------------- process_large_file
\* math.ceil(total_size / max_file_size), for sizes a float holds exactly
Parts(total_size, max_file_size) == (total_size + max_file_size - 1) \div max_file_size

\* the size of part `part` (line 252)
PartSize(total_size, max_file_size, part) ==
    IF part >= Parts(total_size, max_file_size) - 1
    THEN total_size - (part * max_file_size)
    ELSE max_file_size

\* where the internal seek puts part `part` (line 254)
PartOffset(max_file_size, part) == max_file_size * part

\* ------------------------------------------------------------ the generators
\* What one __next__ gave: a yield (a path or a unit) or a raise.  input is
\* the index in self.files of the input it comes from, via the method that
\* made it (process_normal_file or process_large_file).
Yield(input, path, via, unit) ==
    [type |-> "yield", exc |-> "", msg |-> "", input |-> input, path |-> path,
     via |-> via, unit |-> unit]

Raise(exc, msg, input, path, via) ==
    [type |-> "raise", exc |-> exc, msg |-> msg, input |-> input, path |-> path,
     via |-> via, unit |-> NoUnit]

\* self._iterator = None
NoIterator ==
    [isNone |-> TRUE, done |-> FALSE, started |-> FALSE, i |-> 1, j |-> 0, file |-> NoPath,
     part |-> -1, total |-> 0, seen |-> 0, opened |-> 0,
     src |-> [isNone |-> TRUE, done |-> FALSE, i |-> 1, j |-> 0]]

\* self.get_iterator(): a generator that has not run yet.  i is the input the
\* loop is at and file its path, j how many entries of it RecursiveFiles has
\* yielded, part the part process_large_file has just yielded (-1 outside it),
\* total its total_size; seen is the last input whose size line 124 read, opened
\* how many files the generator has opened (FileIO.__init__, line 146, once for
\* each File or SplitFile it set out to construct); src is self.files._iterator
\* when self.files is a pipeline.
NewGenerator == [NoIterator EXCEPT !.isNone = FALSE]

\* self.files when it is a list; source.cls names the class of the pipeline
\* self.files is otherwise
NoSource == [cls |-> "", files |-> <<>>, iterator |-> NoIterator.src]

\* a generator that goes on with the next input after a raise
Finished_goes_on(g) == [g EXCEPT !.i = g.i + 1, !.j = 0, !.part = -1]

\* A generator that returned or raised is finished: next() raises StopIteration.
Finished(g) == [g EXCEPT !.done = TRUE]

Stop(g) == [it |-> Finished(g), res |-> Raise("StopIteration", "", 0, NoPath, "")]

\* a walk that lists the directory itself and goes no deeper
RecursiveFiles_expand_shallow(file) ==
    IF isdir(file)
    THEN SelectSeq(scandir(file), LAMBDA x : ~isdir(x))
    ELSE <<file>>

\* RecursiveFiles.get_iterator, the body of the loop: what one input yields
RecursiveFiles_expand(file) ==
    IF isdir(file)
    THEN SelectSeq(scantree(file), LAMBDA x : ~isdir(x))
    ELSE <<file>>

\* RecursiveFiles.get_iterator of a pipeline whose self.files is the list fs
RECURSIVE RecursiveFiles_loop(_, _)
RecursiveFiles_loop(fs, g) ==
    IF g.i > Len(fs) THEN Stop(g)
    ELSE LET L == RecursiveFiles_expand(fs[g.i])
         IN  IF g.j < Len(L)
             THEN [it |-> [g EXCEPT !.j = g.j + 1],
                   res |-> Yield(g.i, L[g.j + 1], "", NoUnit)]
             ELSE RecursiveFiles_loop(fs, [g EXCEPT !.i = g.i + 1, !.j = 0])

RecursiveFiles_get_iterator(g) == RecursiveFiles_loop(files, g)

\* NoDirectoriesFiles.get_iterator of a pipeline whose self.files is the list fs
NoDirectoriesFiles_loop(fs, g) ==
    IF g.i > Len(fs) THEN Stop(g)
    ELSE IF isdir(fs[g.i])
         THEN [it |-> Finished(g),
               res |-> Raise("TelegramInvalidFile", "is a directory.", g.i, fs[g.i], "")]
         ELSE [it |-> [g EXCEPT !.i = g.i + 1], res |-> Yield(g.i, fs[g.i], "", NoUnit)]

\* a flat-only pass that lets directories through
NoDirectoriesFiles_get_iterator_nocheck(g) ==
    IF g.i > Len(files) THEN Stop(g)
    ELSE [it |-> [g EXCEPT !.i = g.i + 1], res |-> Yield(g.i, files[g.i], "", NoUnit)]

\* NoDirectoriesFiles.get_iterator
NoDirectoriesFiles_get_iterator(g) == NoDirectoriesFiles_loop(files, g)

\* UploadFilesBase.__next__ of the pipeline self.files is, s its _iterator
Source_next(s) ==
    LET g == IF s.isNone THEN [s EXCEPT !.isNone = FALSE] ELSE s
    IN  IF g.done THEN Stop(g)
        ELSE IF source.cls = "RecursiveFiles" THEN RecursiveFiles_loop(source.files, g)
        ELSE NoDirectoriesFiles_loop(source.files, g)

\* a for statement that asks self.files for items without iter(self.files)
Begin_noiter(g) == [g EXCEPT !.started = TRUE]

\* `for file in self.files` (line 123) begins: iter(self.files), which for a
\* pipeline is UploadFilesBase.__iter__ (a new generator in its _iterator)
Begin(g) ==
    [g EXCEPT !.started = TRUE,
              !.src = IF source.cls = "" THEN g.src
                      ELSE [NoSource.iterator EXCEPT !.isNone = FALSE]]

\* `for file in self.files` asks for item i: the i-th of the list, or what
\* next(self.files) gives
NextFile(g, i) ==
    IF source.cls = ""
    THEN IF i > Len(files)
         THEN [kind |-> "end", it |-> g, res |-> Stop(g).res]
         ELSE [kind |-> "item", it |-> [g EXCEPT !.file = files[i]], res |-> Stop(g).res]
    ELSE LET r == Source_next(g.src)
         IN  [kind |-> IF r.res.type = "yield" THEN "item"
                       ELSE IF r.res.exc = "StopIteration" THEN "end" ELSE "raise",
              it |-> [g EXCEPT !.src = r.it,
                               !.file = IF r.res.type = "yield" THEN r.res.path ELSE g.file],
              res |-> r.res]

\* LargeFilesBase.process_normal_file
process_normal_file(file) ==
    File__init__(FALSE, file, [isNone |-> FALSE, v |-> force_file], thumbnail, caption)

\* NoLargeFiles.process_large_file
NoLargeFiles_process_large_file(g, i) ==
    [it |-> Finished(g),
     res |-> Raise("TelegramInvalidFile", "file is too large for Telegram.", i, g.file, "large")]

\* SplitFiles.process_large_file, one round of its loop (lines 252-255)
SplitFiles_part(g, i, part, total_size) ==
    LET size == PartSize(total_size, client.max_file_size, part)
        made == SplitFile__init__(g.file, size, PartName(basename(g.file), part))
        h == [g EXCEPT !.opened = g.opened + 1]
    IN  IF made.raised # ""
        THEN [it |-> Finished(h), res |-> Raise(made.raised, "", i, g.file, "large")]
        ELSE LET sought == SplitFile_seek(made.obj, getsize(g.file),
                                          PartOffset(client.max_file_size, part), SEEK_SET, TRUE)
             IN  [it |-> [h EXCEPT !.i = i, !.part = part, !.total = total_size],
                  res |-> Yield(i, g.file, "large", sought.obj)]

\* SplitFiles.process_large_file up to its first yield (lines 247-251)
SplitFiles_process_large_file(g, i) == SplitFiles_part(g, i, 0, getsize(g.file))

\* a loop that makes the unit of the next input along with the one it yields
LargeFilesBase_file_ahead(g, i) ==
    LET nx == NextFile(g, i)
        h == [nx.it EXCEPT !.seen = i]
    IN  IF nx.kind = "end" THEN Stop(nx.it)
        ELSE IF nx.kind = "raise" THEN [it |-> Finished(nx.it), res |-> nx.res]
        ELSE IF getsize(h.file) > client.max_file_size
        THEN IF cls = "NoLargeFiles"
             THEN NoLargeFiles_process_large_file(h, i)
             ELSE SplitFiles_process_large_file(h, i)
        ELSE LET made == process_normal_file(h.file)
                 ahead == IF NextFile(h, i + 1).kind = "item" THEN 1 ELSE 0
                 o == [h EXCEPT !.opened = h.opened + 1 + ahead, !.seen = i + ahead]
             IN  IF made.raised # ""
                 THEN [it |-> Finished(o), res |-> Raise(made.raised, "", i, h.file, "normal")]
                 ELSE [it |-> [o EXCEPT !.i = i + 1, !.part = -1],
                       res |-> Yield(i, h.file, "normal", made.obj)]

\* LargeFilesBase.get_iterator at input i (lines 123-127): the loop takes its
\* next file (an error of self.files passes through and ends the generator)
\* and hands it to process_large_file or process_normal_file
LargeFilesBase_file(g, i) ==
    LET nx == NextFile(g, i)
        h == [nx.it EXCEPT !.seen = i]
    IN  IF nx.kind = "end" THEN Stop(nx.it)
        ELSE IF nx.kind = "raise" THEN [it |-> Finished(nx.it), res |-> nx.res]
        ELSE IF getsize(h.file) > client.max_file_size
        THEN IF cls = "NoLargeFiles"
             THEN NoLargeFiles_process_large_file(h, i)
             ELSE SplitFiles_process_large_file(h, i)
        ELSE LET made == process_normal_file(h.file)
                 o == [h EXCEPT !.opened = h.opened + 1]
             IN  IF made.raised # ""
                 THEN [it |-> Finished(o), res |-> Raise(made.raised, "", i, h.file, "normal")]
                 ELSE [it |-> [o EXCEPT !.i = i + 1, !.part = -1],
                       res |-> Yield(i, h.file, "normal", made.obj)]

\* LargeFilesBase.get_iterator resumed: at its start the for statement begins;
\* inside process_large_file the loop over the parts goes on; after its last
\* part, and after a whole file, the next input.
LargeFilesBase_get_iterator(g) ==
    IF ~g.started THEN LargeFilesBase_file(Begin(g), 1)
    ELSE IF g.part >= 0
    THEN IF g.part + 1 < Parts(g.total, client.max_file_size)
         THEN SplitFiles_part(g, g.i, g.part + 1, g.total)
         ELSE LargeFilesBase_file(g, g.i + 1)
    ELSE LargeFilesBase_file(g, g.i)

\* next(self._iterator)
get_iterator_next(g) ==
    IF g.done THEN Stop(g)
    ELSE IF cls = "RecursiveFiles" THEN RecursiveFiles_get_iterator(g)
    ELSE IF cls = "NoDirectoriesFiles" THEN NoDirectoriesFiles_get_iterator(g)
    ELSE LargeFilesBase_get_iterator(g)

\* ------------------------------------------------------------ the pipeline
SeqsUpTo(S, n) == UNION { [1..k -> S] : k \in 0..n }

SomeCaption == [isNone |-> FALSE, v |-> <<"{", "f", "}">>]

SliceIdle ==
    /\ sf = NoUnit
    /\ win = [T |-> 0, M |-> 0, part |-> 0]
    /\ pc = "pipeline"
    /\ hist = <<>>

\* UploadFilesBase.__init__ of a traversal pipeline or of a size-policy pipeline
Init ==
    /\ \/ /\ cls \in {"RecursiveFiles", "NoDirectoriesFiles"}
          /\ files \in SeqsUpTo(Dirs \cup PlainFiles, MaxFiles)
          /\ client = [max_file_size |-> 1]
          /\ caption = NoneCaption
          /\ force_file = FALSE
          /\ fsize = [p \in SizedFiles |-> 1]
       \/ /\ cls \in {"NoLargeFiles", "SplitFiles"}
          /\ files \in SeqsUpTo(SizedFiles, MaxFiles)
          /\ client \in [max_file_size : 1..MaxSize]
          /\ caption \in {NoneCaption, SomeCaption}
          /\ force_file \in BOOLEAN
          /\ fsize \in [SizedFiles -> 1..MaxSize]
    /\ thumbnail = NoneThumb
    /\ iterator = NoIterator
    /\ out = <<>>
    /\ source = NoSource
    /\ restarted = FALSE
    /\ SliceIdle

\* the pass in progress has given something and has not ended
Midway == out # <<>> /\ out[Len(out)].type = "yield"

\* UploadFilesBase.__iter__: a new generator; out starts over with the pass
Iter ==
    /\ pc = "pipeline"
    /\ iterator' = NewGenerator
    /\ out' = <<>>
    /\ restarted' = IF out = <<>> THEN restarted ELSE Midway
    /\ UNCHANGED << cls, files, client, thumbnail, force_file, caption, fsize, source,
                    sliceVars >>

\* UploadFilesBase.__next__ with _iterator it, s being self.files._iterator
\* when self.files is a pipeline
UploadFilesBase__next__(it, s) ==
    LET g == IF it.isNone THEN NewGenerator ELSE it
    IN  get_iterator_next([g EXCEPT !.src = s])

\* UploadFilesBase.__next__
NextUnit ==
    /\ pc = "pipeline"
    /\ Len(out) < MaxPulls
    /\ LET r == UploadFilesBase__next__(iterator, source.iterator)
       IN  /\ iterator' = r.it
           /\ out' = Append(out, r.res)
           /\ source' = [source EXCEPT !.iterator = r.it.src]
    /\ UNCHANGED << cls, files, client, thumbnail, force_file, caption, fsize, restarted,
                    sliceVars >>

Next == Iter \/ NextUnit

Spec == Init /\ [][Next]_vars

\* ------------------------------------------------- properties of the pipeline
\* the outcomes of the pass that are yields of input i, in order
YieldsOf(i) == SelectSeq(out, LAMBDA o : o.type = "yield" /\ o.input = i)

\* the pass has moved past input i
PastInput(i) ==
    \E k \in 1..Len(out) : out[k].exc = "StopIteration" \/ out[k].input > i

\* the smallest n with n * M >= T
Ceil(T, M) == CHOOSE n \in 0..T : n * M >= T /\ (n - 1) * M < T

\* which part of its input the k-th outcome is
PartIndex(k) == Cardinality({l \in 1..(k - 1) : out[l].input = out[k].input})

\* the bytes 0 .. T-1 of a file of T bytes
WholeFile(T) == [b \in 1..T |-> b - 1]

\* every unit of ys read to exhaustion, one after the other
RECURSIVE ReadInOrder(_, _)
ReadInOrder(ys, T) ==
    IF ys = <<>> THEN <<>>
    ELSE SplitFile_readall(Head(ys).unit, T).data \o ReadInOrder(Tail(ys), T)

\* C1: under SplitFiles a file of size T > M gives exactly ceil(T/M) parts,
\* part p at offset p*M, of length M but for the last, whose length is
\* T - M*(parts-1), which is > 0 and <= M.
C1_Orig ==
    cls = "SplitFiles" =>
        \A k \in 1..Len(out) :
            out[k].via = "large" =>
                LET T == getsize(files[out[k].input])
                    M == client.max_file_size
                    parts == Ceil(T, M)
                    p == PartIndex(k)
                IN  /\ out[k].type = "yield"
                    /\ out[k].unit.cls = "SplitFile"
                    /\ p < parts
                    /\ out[k].unit.pos = p * M
                    /\ out[k].unit.max_read_size = (IF p < parts - 1 THEN M ELSE T - M * (parts - 1))
                    /\ out[k].unit.max_read_size > 0
                    /\ out[k].unit.max_read_size <= M
                    /\ (k < Len(out) /\ out[k + 1].input # out[k].input) => p = parts - 1

\* C6: every part of a file of size T > M is constructed, and the parts read
\* to exhaustion in the order produced give the bytes 0 .. T-1 of the file.
C6_Orig ==
    cls = "SplitFiles" =>
        /\ \A k \in 1..Len(out) : out[k].via = "large" => out[k].type = "yield"
        /\ \A i \in 1..Len(files) :
               (getsize(files[i]) > client.max_file_size /\ PastInput(i)) =>
                   ReadInOrder(YieldsOf(i), getsize(files[i])) = WholeFile(getsize(files[i]))

\* C7: a file of size <= max_file_size (size = max included) gives exactly one
\* whole-file unit and never reaches process_large_file; a larger file gives
\* no whole-file unit.
C7_Orig ==
    cls \in {"NoLargeFiles", "SplitFiles"} =>
        /\ \A k \in 1..Len(out) :
               out[k].input > 0 =>
                   IF getsize(files[out[k].input]) <= client.max_file_size
                   THEN /\ out[k].type = "yield"
                        /\ out[k].via = "normal"
                        /\ out[k].unit.cls = "File"
                        /\ out[k].unit.path = files[out[k].input]
                   ELSE /\ out[k].via = "large"
                        /\ out[k].unit.cls # "File"
        /\ \A i \in 1..Len(files) :
               getsize(files[i]) <= client.max_file_size => Len(YieldsOf(i)) <= 1

\* C8 as stated: after the TelegramInvalidFile of one input, pulling on gives
\* what the next input gives (its unit or path, or its own error).
C8_Orig ==
    cls \in {"NoLargeFiles", "NoDirectoriesFiles"} =>
        \A k \in 1..(Len(out) - 1) :
            (out[k].exc = "TelegramInvalidFile" /\ out[k].input < Len(files)) =>
                out[k + 1].input = out[k].input + 1

\* C8 (amended): the error is raised for the input that fails, naming its
\* path, and it ends the pass: every later pull raises StopIteration, so no
\* unit of a following input is produced.
C8_ErrorEndsPass ==
    cls \in {"NoLargeFiles", "NoDirectoriesFiles"} =>
        \A k \in 1..Len(out) :
            out[k].exc = "TelegramInvalidFile" =>
                /\ out[k].path = files[out[k].input]
                /\ \A l \in 1..Len(out) : l > k => out[l].exc = "StopIteration"
                /\ k = Len(out) => iterator.done

C8_Witness ==
    /\ cls = "NoLargeFiles"
    /\ Len(out) >= 2
    /\ out[1].exc = "TelegramInvalidFile"
    /\ out[1].input < Len(files)
    /\ getsize(files[2]) <= client.max_file_size
    /\ ~caption.isNone
    /\ out[2].exc = "StopIteration"

\* the first input that is a directory (Len(files) + 1 when none is)
FirstDir ==
    LET ds == {k \in 1..Len(files) : isdir(files[k])}
    IN  IF ds = {} THEN Len(files) + 1 ELSE CHOOSE k \in ds : \A m \in ds : k <= m

\* C9: NoDirectoriesFiles yields each plain file unchanged and in input order
\* up to the first directory, raises TelegramInvalidFile naming that
\* directory when it gets there, and never yields a directory.
C9_FlatOnly ==
    cls = "NoDirectoriesFiles" =>
        \A k \in 1..Len(out) :
            /\ (k < FirstDir /\ k <= Len(files)) => out[k] = Yield(k, files[k], "", NoUnit)
            /\ (k = FirstDir /\ k <= Len(files)) =>
                   /\ out[k].type = "raise"
                   /\ out[k].exc = "TelegramInvalidFile"
                   /\ out[k].msg = "is a directory."
                   /\ out[k].path = files[k]
                   /\ \A l \in 1..(k - 1) : out[l] = Yield(l, files[l], "", NoUnit)
            /\ out[k].type = "yield" => ~isdir(out[k].path)

C9_Witness ==
    /\ cls = "NoDirectoriesFiles"
    /\ Len(out) >= 2
    /\ out[1].type = "yield"
    /\ out[2].exc = "TelegramInvalidFile"
    /\ isdir(files[2])

\* the plain files at any depth below directory d
FilesBelow(d) == {p \in PlainFiles : Len(p) > Len(d) /\ SubSeq(p, 1, Len(d)) = d}

\* C10: RecursiveFiles yields a plain-file input unchanged, yields every
\* non-directory entry at any depth below a directory input exactly once,
\* never yields a directory, and keeps the inputs' order.
C10_Recursive ==
    cls = "RecursiveFiles" =>
        /\ \A k \in 1..Len(out) : out[k].type = "yield" => ~isdir(out[k].path)
        /\ \A k \in 1..Len(out) : out[k].type = "raise" => out[k].exc = "StopIteration"
        /\ \A k \in 1..(Len(out) - 1) :
               (out[k].type = "yield" /\ out[k + 1].type = "yield") =>
                   out[k].input <= out[k + 1].input
        /\ \A i \in 1..Len(files) :
               LET y == YieldsOf(i)
                   want == IF isdir(files[i]) THEN FilesBelow(files[i]) ELSE {files[i]}
               IN  /\ \A a, b \in 1..Len(y) : a # b => y[a].path # y[b].path
                   /\ \A a \in 1..Len(y) : y[a].path \in want
                   /\ PastInput(i) => {y[a].path : a \in 1..Len(y)} = want

C10_Witness ==
    /\ cls = "RecursiveFiles"
    /\ Len(files) = 2
    /\ isdir(files[1])
    /\ Len(YieldsOf(1)) = 2
    /\ Len(YieldsOf(2)) = 1
    /\ out[Len(out)].exc = "StopIteration"

\* ---------------------------------------------------------------- a slice
\* The read/seek contract of SplitFile, on the slice process_large_file makes
\* for part `part` of a file of T bytes with max_file_size M: the fields are
\* those lines 146-150 and 211-213 assign, that is, those of a SplitFile whose
\* File.__init__ went past line 152.
PipelineIdle ==
    /\ cls = "SplitFiles"
    /\ files = << <<"f.bin">> >>
    /\ client = [max_file_size |-> win.M]
    /\ thumbnail = NoneThumb
    /\ force_file = FALSE
    /\ caption = NoneCaption
    /\ fsize = [p \in SizedFiles |-> win.T]
    /\ iterator = NoIterator
    /\ out = <<>>
    /\ source = NoSource
    /\ restarted = FALSE

NoHist ==
    [ops |-> 0, total |-> 0, sinceSeek |-> 0, seeked |-> FALSE, windowSeeks |-> TRUE,
     last |-> "", n |-> 0, remBefore |-> 0, posBefore |-> 0, data |-> <<>>,
     target |-> 0, whence |-> 0, back |-> FALSE, raised |-> ""]

SliceInit ==
    /\ win \in { w \in [T : 2..MaxSize, M : 1..MaxSize, part : 0..MaxSize] :
                     w.M < w.T /\ w.part < Parts(w.T, w.M) }
    /\ sf = SplitFile_fields(File_fields(TRUE, <<"f.bin">>, NoneBool, NoneThumb, NoneCaption),
                             PartSize(win.T, win.M, win.part), PartName("f.bin", win.part))
    /\ pc = "constructed"
    /\ hist = NoHist
    /\ PipelineIdle

\* the window of the slice
WinOffset == PartOffset(win.M, win.part)

WinLength == PartSize(win.T, win.M, win.part)

WinEnd == WinOffset + WinLength

InWindow(b) == WinOffset <= b /\ b < WinEnd

\* process_large_file, line 254: splitted_file.seek(max_file_size * part, split_seek=True)
SplitSeek ==
    /\ pc = "constructed"
    /\ sf' = SplitFile_seek(sf, win.T, PartOffset(win.M, win.part), SEEK_SET, TRUE).obj
    /\ pc' = "ready"
    /\ UNCHANGED << win, hist, pipeVars >>

AfterRead(r, n, kind) ==
    [hist EXCEPT !.ops = hist.ops + 1,
                 !.total = hist.total + Len(r.data),
                 !.sinceSeek = hist.sinceSeek + Len(r.data),
                 !.last = kind, !.n = n,
                 !.remBefore = sf.remaining_size, !.posBefore = sf.pos,
                 !.data = r.data, !.raised = ""]

\* the consumer calls read(n)
Read ==
    /\ pc = "ready"
    /\ hist.ops < MaxOps
    /\ \E n \in -1..MaxSize :
           LET r == SplitFile_read(sf, win.T, n)
           IN  /\ sf' = r.obj
               /\ hist' = AfterRead(r, n, "read")
    /\ UNCHANGED << win, pc, pipeVars >>

\* the consumer calls readall()
ReadAll ==
    /\ pc = "ready"
    /\ hist.ops < MaxOps
    /\ LET r == SplitFile_readall(sf, win.T)
       IN  /\ sf' = r.obj
           /\ hist' = AfterRead(r, -1, "readall")
    /\ UNCHANGED << win, pc, pipeVars >>

\* the (target, whence) a consumer seeks with: any absolute target from just
\* before the file to just past it, and short relative moves
SeekArgs ==
    ((-1..(MaxSize + 1)) \X {SEEK_SET}) \cup ((-1..1) \X {SEEK_CUR, SEEK_END})

\* the consumer calls seek(target, whence)
Seek ==
    /\ pc = "ready"
    /\ hist.ops < MaxOps
    /\ \E a \in SeekArgs :
           LET target == a[1]
               whence == a[2]
               r == SplitFile_seek(sf, win.T, target, whence, FALSE)
           IN  /\ sf' = r.obj
               /\ hist' = [hist EXCEPT !.ops = hist.ops + 1,
                                       !.sinceSeek = 0,
                                       !.seeked = TRUE,
                                       !.windowSeeks = hist.windowSeeks /\ whence = SEEK_SET
                                                           /\ InWindow(target),
                                       !.last = "seek", !.n = 0,
                                       !.remBefore = sf.remaining_size, !.posBefore = sf.pos,
                                       !.data = <<>>, !.target = target, !.whence = whence,
                                       !.back = (whence = SEEK_SET /\ target < sf.pos),
                                       !.raised = r.raised]
    /\ UNCHANGED << win, pc, pipeVars >>

SliceNext == SplitSeek \/ Read \/ ReadAll \/ Seek

SliceSpec == SliceInit /\ [][SliceNext]_vars

\* ---------------------------------------------------- properties of a slice
Min(a, b) == IF a < b THEN a ELSE b

DataInWindow == \A k \in 1..Len(hist.data) : InWindow(hist.data[k])

NameChars ==
    ("f.bin" :> <<"f", ".", "b", "i", "n">>) @@
    ("v.mp4" :> <<"v", ".", "m", "p", "4">>) @@
    ("c.tar.gz" :> <<"c", ".", "t", "a", "r", ".", "g", "z">>) @@
    ("README" :> <<"R", "E", "A", "D", "M", "E">>)

\* s.split(sep)
RECURSIVE str_split(_, _)
str_split(s, sep) ==
    IF \A k \in 1..Len(s) : s[k] # sep THEN <<s>>
    ELSE LET k == CHOOSE j \in 1..Len(s) : s[j] = sep /\ \A l \in 1..(j - 1) : s[l] # sep
         IN  <<SubSeq(s, 1, k - 1)>> \o str_split(SubSeq(s, k + 1, Len(s)), sep)

\* sep.join(parts)
RECURSIVE str_join(_, _)
str_join(sep, parts) ==
    IF parts = <<>> THEN <<>>
    ELSE IF Len(parts) = 1 THEN parts[1]
    ELSE parts[1] \o <<sep>> \o str_join(sep, Tail(parts))

\* mimetypes.guess_type(file)[0], by the extension of the name
guess_type(file) ==
    LET segs == str_split(NameChars[basename(file)], ".")
        ext == IF Len(segs) < 2 THEN <<>> ELSE segs[Len(segs)]
    IN  IF ext = <<"m", "p", "4">> THEN [isNone |-> FALSE, v |-> <<"video", "mp4">>]
        ELSE IF ext = <<"b", "i", "n">> THEN [isNone |-> FALSE, v |-> <<"application", "octet-stream">>]
        ELSE IF ext = <<"g", "z">> THEN [isNone |-> FALSE, v |-> <<"application", "x-tar">>]
        ELSE [isNone |-> TRUE, v |-> <<>>]

\* get_file_mime(file): what stands before the '/' of the type, '' for no type
get_file_mime(file) == IF guess_type(file).isNone THEN "" ELSE guess_type(file).v[1]

\* ------------------------------------------------------ the unit's properties
\* plain files that exist besides those of the tree
OtherFiles == { <<"v.mp4">>, <<"c.tar.gz">>, <<"README">>, <<"t.jpg">> }

lexists(p) == p \in Dirs \cup PlainFiles \cup OtherFiles

FalseThumb == [kind |-> "False", path |-> NoPath]

TrueThumb == [kind |-> "True", path |-> NoPath]

StrThumb(p) == [kind |-> "str", path |-> p]

\* what get_thumbnail and get_file_thumb return: a path or None
NoThumbnail == [isNone |-> TRUE, path |-> NoPath]

ThumbAt(p) == [isNone |-> FALSE, path |-> p]

\* File.file_name
File_file_name(u) == basename(u.path)

\* SplitFile.file_name
SplitFile_file_name(u) == u.name

file_name(u) == IF u.cls = "SplitFile" THEN SplitFile_file_name(u) ELSE File_file_name(u)

\* File.file_size: the size of the path on disk when file_size is read
File_file_size(u) == getsize(u.path)

file_size(u) == IF u.cls = "SplitFile" THEN SplitFile_file_size(u) ELSE File_file_size(u)

\* File.short_name: '.'.join(self.file_name.split('.')[:-1])
File_short_name(u) ==
    LET segs == str_split(NameChars[File_file_name(u)], ".")
    IN  str_join(".", SubSeq(segs, 1, Len(segs) - 1))

\* telegram_upload.utils.truncate(text, max_length): the text, cut to at most
\* max_length characters
truncate(text, max_length) ==
    IF Len(text) > max_length THEN SubSeq(text, 1, max_length) ELSE text

\* File.file_caption: rendered is what CaptionFormatter().format gives for the
\* caption of the unit
File_file_caption(u, rendered, max_caption_length) ==
    truncate(IF ~u.caption.isNone THEN rendered ELSE File_short_name(u), max_caption_length)

\* File.is_custom_thumbnail
is_custom_thumbnail(u) == u.thumbnail.kind # "False" /\ u.thumbnail.kind # "None"

\* get_file_thumb(file): get_video_thumb(file) for a video, which gives the
\* path of the thumbnail it made or raises ThumbError (video_thumb says
\* which); None for any other file
get_file_thumb(file, video_thumb) ==
    IF get_file_mime(file) = "video"
    THEN IF video_thumb = "ThumbError"
         THEN [raised |-> "ThumbError", ret |-> NoThumbnail]
         ELSE [raised |-> "", ret |-> ThumbAt(<<"tmp", basename(file)>>)]
    ELSE [raised |-> "", ret |-> NoThumbnail]

\* get_thumbnail that takes a thumbnail path without looking whether it exists
File_get_thumbnail_nolexists(u, video_thumb) ==
    IF u.thumbnail.kind = "None" /\ ~u.force_file
    THEN LET t == get_file_thumb(u.path, video_thumb)
         IN  IF t.raised = "ThumbError"
             THEN [raised |-> "", ret |-> NoThumbnail, called |-> TRUE, echo |-> TRUE]
             ELSE [raised |-> "", ret |-> t.ret, called |-> TRUE, echo |-> FALSE]
    ELSE IF is_custom_thumbnail(u)
    THEN IF u.thumbnail.kind # "str"
         THEN [raised |-> "TypeError", ret |-> NoThumbnail, called |-> FALSE, echo |-> FALSE]
         ELSE [raised |-> "", ret |-> ThumbAt(u.thumbnail.path), called |-> FALSE,
               echo |-> FALSE]
    ELSE [raised |-> "", ret |-> NoThumbnail, called |-> FALSE, echo |-> FALSE]

\* get_thumbnail that looks for a thumbnail of a forced-plain unit too
File_get_thumbnail_forced(u, video_thumb) ==
    IF u.thumbnail.kind = "None"
    THEN LET t == get_file_thumb(u.path, video_thumb)
         IN  IF t.raised = "ThumbError"
             THEN [raised |-> "", ret |-> NoThumbnail, called |-> TRUE, echo |-> TRUE]
             ELSE [raised |-> "", ret |-> t.ret, called |-> TRUE, echo |-> FALSE]
    ELSE IF is_custom_thumbnail(u)
    THEN IF u.thumbnail.kind # "str"
         THEN [raised |-> "TypeError", ret |-> NoThumbnail, called |-> FALSE, echo |-> FALSE]
         ELSE IF ~lexists(u.thumbnail.path)
         THEN [raised |-> "TelegramInvalidFile", ret |-> NoThumbnail, called |-> FALSE,
               echo |-> FALSE]
         ELSE [raised |-> "", ret |-> ThumbAt(u.thumbnail.path), called |-> FALSE,
               echo |-> FALSE]
    ELSE [raised |-> "", ret |-> NoThumbnail, called |-> FALSE, echo |-> FALSE]

\* File.get_thumbnail(): called says whether get_file_thumb ran, echo whether
\* click.echo reported a ThumbError
File_get_thumbnail(u, video_thumb) ==
    IF u.thumbnail.kind = "None" /\ ~u.force_file
    THEN LET t == get_file_thumb(u.path, video_thumb)
         IN  IF t.raised = "ThumbError"
             THEN [raised |-> "", ret |-> NoThumbnail, called |-> TRUE, echo |-> TRUE]
             ELSE [raised |-> "", ret |-> t.ret, called |-> TRUE, echo |-> FALSE]
    ELSE IF is_custom_thumbnail(u)
    THEN IF u.thumbnail.kind # "str"
         THEN [raised |-> "TypeError", ret |-> NoThumbnail, called |-> FALSE, echo |-> FALSE]
         ELSE IF ~lexists(u.thumbnail.path)
         THEN [raised |-> "TelegramInvalidFile", ret |-> NoThumbnail, called |-> FALSE,
               echo |-> FALSE]
         ELSE [raised |-> "", ret |-> ThumbAt(u.thumbnail.path), called |-> FALSE,
               echo |-> FALSE]
    ELSE [raised |-> "", ret |-> NoThumbnail, called |-> FALSE, echo |-> FALSE]

\* get_file_attributes(file): one DocumentAttributeVideo for a video whose
\* metadata video_metadata could read (has_metadata), nothing otherwise
get_file_attributes(file, has_metadata) ==
    IF get_file_mime(file) = "video" /\ has_metadata
    THEN << [attr |-> "DocumentAttributeVideo", file_name |-> <<>>] >>
    ELSE <<>>

\* File.file_attributes
File_file_attributes(u, has_metadata) ==
    IF u.force_file
    THEN << [attr |-> "DocumentAttributeFilename", file_name |-> file_name(u)] >>
    ELSE get_file_attributes(u.path, has_metadata)

\* ------------------------------------------------------------ is_valid_file
\* what a path can be on disk
PathStates == {"missing", "empty", "nonempty", "directory", "broken_symlink"}

\* os.path.lexists(file): the link itself is looked at, never its target
path_lexists(state) == state # "missing"

\* os.path.getsize(file): os.stat(file).st_size, which follows a symbolic
\* link and raises FileNotFoundError when there is nothing at its end; the
\* size of a directory is that of its entry table, never 0 here
path_getsize(state) ==
    IF state \in {"missing", "broken_symlink"}
    THEN [raised |-> "FileNotFoundError", size |-> 0]
    ELSE [raised |-> "", size |-> IF state = "empty" THEN 0 ELSE MaxSize]

\* error_message = None
NoMessage == [file |-> NoPath, text |-> ""]

\* is_valid_file(file, error_logger): logged is what error_logger was called with
is_valid_file(file, state, has_logger) ==
    LET size == path_getsize(state)
        error_message ==
            IF ~path_lexists(state) THEN [file |-> file, text |-> "does not exist."]
            ELSE IF size.size = 0 THEN [file |-> file, text |-> "is empty."]
            ELSE NoMessage
    IN  IF path_lexists(state) /\ size.raised # ""
        THEN [raised |-> size.raised, ret |-> FALSE, logged |-> <<>>]
        ELSE [raised |-> "", ret |-> error_message = NoMessage,
              logged |-> IF error_message # NoMessage /\ has_logger
                         THEN <<error_message>> ELSE <<>>]

\* ---------------------------------------------------------------- one unit
\* One unit and the calls a consumer makes on it.  sf is the unit, win the
\* size of its file (and its part, for a slice), hist what the latest call
\* gave; thumbnail, force_file and caption are the pipeline's.
UnitPaths == { <<"f.bin">>, <<"v.mp4">>, <<"c.tar.gz">>, <<"README">> }

Thumbnails ==
    { NoneThumb, FalseThumb, TrueThumb, StrThumb(<<"t.jpg">>), StrThumb(<<"gone.jpg">>) }

\* what CaptionFormatter().format can give
RenderedTexts == { <<"o", "k">>, <<"a", " ", "l", "o", "n", "g", " ", "o", "n", "e">> }

NoObs ==
    [made |-> "", last |-> "", raised |-> "", ret |-> NoThumbnail, called |-> FALSE,
     echo |-> FALSE, video_thumb |-> "", value |-> 0, first |-> -1, resized |-> FALSE, attrs |-> <<>>,
     text |-> <<>>, rendered |-> <<>>, file |-> NoPath, state |-> "", logger |-> FALSE,
     logged |-> <<>>, ok |-> FALSE]

\* a whole-file unit, as process_normal_file makes it
FileUnitInit ==
    /\ win \in [T : 1..MaxSize, M : {MaxSize}, part : {0}]
    /\ \E path \in UnitPaths :
           LET made == File__init__(FALSE, path, [isNone |-> FALSE, v |-> force_file],
                                    thumbnail, caption)
           IN  /\ files = <<path>>
               /\ sf = made.obj
               /\ hist = [NoObs EXCEPT !.made = made.raised]

\* a slice with the fields of lines 146-150 and 211-213, after the seek of line 254
SliceUnitInit ==
    /\ win \in { w \in [T : 2..MaxSize, M : 1..MaxSize, part : 0..MaxSize] :
                     w.M < w.T /\ w.part < Parts(w.T, w.M) }
    /\ files = << <<"f.bin">> >>
    /\ sf = SplitFile_seek(
                SplitFile_fields(File_fields(TRUE, <<"f.bin">>, NoneBool, NoneThumb, NoneCaption),
                                 PartSize(win.T, win.M, win.part),
                                 PartName("f.bin", win.part)),
                win.T, PartOffset(win.M, win.part), SEEK_SET, TRUE).obj
    /\ hist = NoObs

UnitInit ==
    /\ pc = "unit"
    /\ cls = "SplitFiles"
    /\ thumbnail \in Thumbnails
    /\ force_file \in BOOLEAN
    /\ caption \in {NoneCaption, SomeCaption}
    /\ FileUnitInit \/ SliceUnitInit
    /\ client \in [max_file_size : {win.M},
                    max_caption_length : IF sf.cls = "File" THEN {1, MaxSize} ELSE {MaxSize}]
    /\ fsize = [p \in UnitPaths |-> win.T]
    /\ iterator = NoIterator
    /\ out = <<>>
    /\ source = NoSource
    /\ restarted = FALSE

\* what stays of hist when a call is made
Kept == [NoObs EXCEPT !.made = hist.made, !.first = hist.first, !.resized = hist.resized]

unitConfig ==
    << cls, files, client, thumbnail, force_file, caption, iterator, out, source, restarted,
       sf, win, pc >>

\* the consumer calls get_thumbnail()
GetThumbnail ==
    /\ pc = "unit" /\ sf # NoUnit
    /\ \E video_thumb \in {"made", "ThumbError"} :
           LET r == File_get_thumbnail(sf, video_thumb)
           IN  hist' = [Kept EXCEPT !.last = "get_thumbnail", !.video_thumb = video_thumb,
                                    !.raised = r.raised,
                                    !.ret = r.ret, !.called = r.called, !.echo = r.echo]
    /\ UNCHANGED << unitConfig, fsize >>

\* the consumer reads file_attributes
FileAttributes ==
    /\ pc = "unit" /\ sf # NoUnit
    /\ \E has_metadata \in BOOLEAN :
           hist' = [Kept EXCEPT !.last = "file_attributes",
                                !.attrs = File_file_attributes(sf, has_metadata)]
    /\ UNCHANGED << unitConfig, fsize >>

\* the consumer reads file_caption of a whole-file unit
FileCaption ==
    /\ pc = "unit" /\ sf # NoUnit /\ sf.cls = "File"
    /\ \E rendered \in RenderedTexts :
           hist' = [Kept EXCEPT !.last = "file_caption", !.rendered = rendered,
                                !.text = File_file_caption(sf, rendered,
                                                           client.max_caption_length)]
    /\ UNCHANGED << unitConfig, fsize >>

\* the consumer reads file_size
FileSize ==
    /\ pc = "unit" /\ sf # NoUnit
    /\ hist' = [Kept EXCEPT !.last = "file_size", !.value = file_size(sf),
                            !.first = IF hist.first = -1 THEN file_size(sf) ELSE hist.first]
    /\ UNCHANGED << unitConfig, fsize >>

\* the file of the unit grows or is cut on disk
Resize ==
    /\ pc = "unit" /\ sf # NoUnit
    /\ \E n \in 1..MaxSize :
           /\ n # getsize(sf.path)
           /\ fsize' = [fsize EXCEPT ![sf.path] = n]
    /\ hist' = [Kept EXCEPT !.last = "resize", !.resized = TRUE]
    /\ UNCHANGED unitConfig

\* the caller checks the path with is_valid_file, before it uses the unit
IsValidFile ==
    /\ pc = "unit"
    /\ hist.last \in {"", "is_valid_file"}
    /\ \E state \in PathStates, has_logger \in BOOLEAN :
           LET r == is_valid_file(files[1], state, has_logger)
           IN  hist' = [Kept EXCEPT !.last = "is_valid_file", !.raised = r.raised,
                                    !.ok = r.ret, !.logged = r.logged, !.file = files[1],
                                    !.state = state, !.logger = has_logger]
    /\ UNCHANGED << unitConfig, fsize >>

UnitNext == GetThumbnail \/ FileAttributes \/ FileCaption \/ FileSize \/ Resize \/ IsValidFile

UnitSpec == UnitInit /\ [][UnitNext]_vars

\* ------------------------------------------------------ properties of a unit
\* the unit is (or was to be) a whole file, no slice
WholeUnit == win.T <= win.M

\* s up to its last '.', nothing when it has none
Stem(s) ==
    LET dots == {k \in 1..Len(s) : s[k] = "."}
    IN  IF dots = {} THEN <<>>
        ELSE SubSeq(s, 1, (CHOOSE k \in dots : \A l \in dots : l <= k) - 1)

\* t is s cut to at most n characters
CutTo(t, s, n) ==
    /\ Len(t) = Min(Len(s), n)
    /\ t = SubSeq(s, 1, Len(t))

\* C11: a whole-file unit made with no caption (the default, None) is
\* constructed without an error, and its file_caption is the base name
\* without its last '.'-separated segment, cut to client.max_caption_length.
C11_Orig ==
    (pc = "unit" /\ WholeUnit /\ caption.isNone) =>
        /\ hist.made = ""
        /\ sf.cls = "File"
        /\ hist.last = "file_caption" =>
               CutTo(hist.text, Stem(NameChars[basename(files[1])]), client.max_caption_length)

\* the unit is a whole file and the latest call on it is get_thumbnail()
ThumbnailOf(kinds) ==
    /\ pc = "unit"
    /\ sf.cls = "File"
    /\ hist.last = "get_thumbnail"
    /\ thumbnail.kind \in kinds

\* C12: get_thumbnail() on a unit with an explicit thumbnail: a str path that
\* does not exist raises TelegramInvalidFile; one that exists is returned as
\* it is, forced-plain or not; a value that is no str (True) raises TypeError
\* and returns nothing; get_file_thumb is called in none of the cases.
C12_Override ==
    ThumbnailOf({"str", "True"}) =>
        /\ ~hist.called
        /\ (thumbnail.kind = "str" /\ thumbnail.path \notin OtherFiles) =>
               hist.raised = "TelegramInvalidFile"
        /\ (thumbnail.kind = "str" /\ thumbnail.path \in OtherFiles) =>
               (hist.raised = "" /\ hist.ret = [isNone |-> FALSE, path |-> thumbnail.path])
        /\ thumbnail.kind = "True" => (hist.raised = "TypeError" /\ hist.ret.isNone)

C12_Witness ==
    /\ ThumbnailOf({"str"})
    /\ force_file
    /\ files[1] = <<"v.mp4">>
    /\ thumbnail.path = <<"t.jpg">>
    /\ hist.ret = [isNone |-> FALSE, path |-> <<"t.jpg">>]
    /\ ~hist.called

\* the file of the unit is one get_video_thumb is asked about
IsVideo == files[1] = <<"v.mp4">>

\* C19: get_thumbnail() on a unit with no explicit thumbnail: get_file_thumb
\* is called exactly when the thumbnail is None and the unit is not
\* forced-plain; a ThumbError of it is reported, not raised, and None is
\* returned; with thumbnail False, or None on a forced-plain unit, None is
\* returned and get_file_thumb is not called.
C19_Auto ==
    ThumbnailOf({"None", "False"}) =>
        /\ hist.called <=> (thumbnail.kind = "None" /\ ~force_file)
        /\ hist.raised = ""
        /\ hist.echo <=> (hist.called /\ IsVideo /\ hist.video_thumb = "ThumbError")
        /\ hist.echo => hist.ret.isNone
        /\ (hist.called /\ IsVideo /\ hist.video_thumb = "made") => ~hist.ret.isNone
        /\ ~hist.called => hist.ret.isNone

C19_Witness ==
    /\ ThumbnailOf({"None"})
    /\ ~force_file
    /\ IsVideo
    /\ hist.called
    /\ hist.video_thumb = "ThumbError"
    /\ hist.echo
    /\ hist.ret.isNone
    /\ hist.raised = ""

C14_Orig ==
    (pc = "unit" /\ hist.last = "is_valid_file") =>
        /\ hist.raised = ""
        /\ hist.ok <=> hist.state \in {"nonempty", "directory"}
        /\ (~hist.ok /\ hist.logger) =>
               /\ Len(hist.logged) = 1
               /\ hist.logged[1].file = hist.file
        /\ (hist.ok \/ ~hist.logger) => hist.logged = <<>>

SizePolicy == cls \in {"NoLargeFiles", "SplitFiles"} /\ pc = "pipeline"

\* the pulls of the pass that gave a unit
Pulled == {k \in 1..Len(out) : out[k].type = "yield"}

\* the pulls of the pass that opened a file: those that gave a unit and those
\* whose unit failed in its constructor
Opening == {k \in 1..Len(out) : out[k].type = "yield" \/ out[k].exc = "AttributeError"}

\* the last input an outcome of the pass names, 0 when there is none
LastInput ==
    LET ins == {out[k].input : k \in 1..Len(out)} \cup {0}
    IN  CHOOSE m \in ins : \A n \in ins : n <= m

\* C15: a size-policy pipeline works on demand: after k pulls that gave a
\* unit (and no other), k units were constructed and k files opened, and no
\* input past the one the k-th unit comes from was looked at; a pull opens
\* one file at most, the parts of a large file included.
C15_Lazy ==
    SizePolicy =>
        /\ iterator.opened = Cardinality(Opening)
        /\ iterator.opened <= Len(out)
        /\ iterator.seen = LastInput
        /\ Pulled = 1..Len(out) =>
               /\ iterator.opened = Len(out)
               /\ Len(out) > 0 => iterator.seen = out[Len(out)].input

C15_Witness ==
    /\ SizePolicy
    /\ Len(files) = 2
    /\ Len(out) = 1
    /\ out[1].type = "yield"
    /\ out[1].unit.cls = "File"
    /\ iterator.opened = 1
    /\ iterator.seen = 1

\* C18: a size-policy pipeline keeps the order of its inputs: the units come
\* in the order of the paths, and under SplitFiles the parts of a large file
\* come one after the other with indices 0, 1, ..., parts-1, all of them
\* after every unit of the input before and before any unit of the input after.
C18_Orig ==
    SizePolicy =>
        /\ \A k, l \in Pulled : k < l => out[k].input <= out[l].input
        /\ \A k \in Pulled :
               out[k].via = "large" =>
                   /\ out[k].unit.pos = PartIndex(k) * client.max_file_size
                   /\ out[k].unit.name =
                          <<basename(files[out[k].input]), ".", "0", DigitChar[PartIndex(k) + 1]>>
        /\ \A i \in 1..Len(files) :
               (cls = "SplitFiles" /\ getsize(files[i]) > client.max_file_size /\ PastInput(i)) =>
                   Len(YieldsOf(i)) = Ceil(getsize(files[i]), client.max_file_size)

\* ------------------------------------------------- a pipeline of a pipeline
\* UploadFilesBase.__init__ of a size-policy pipeline whose files is a
\* traversal pipeline
ComposedInit ==
    /\ cls \in {"NoLargeFiles", "SplitFiles"}
    /\ files = <<>>
    /\ source \in [cls : {"RecursiveFiles", "NoDirectoriesFiles"},
                   files : SeqsUpTo(Dirs \cup PlainFiles, MaxFiles),
                   iterator : {NoSource.iterator}]
    /\ client \in [max_file_size : 1..MaxSize]
    /\ caption \in {NoneCaption, SomeCaption}
    /\ force_file = FALSE
    /\ fsize = [p \in PlainFiles |-> Len(p)]
    /\ thumbnail = NoneThumb
    /\ iterator = NoIterator
    /\ out = <<>>
    /\ restarted = FALSE
    /\ SliceIdle

\* a pipeline over a list of paths, or over a traversal pipeline
ComposedSpec == (Init \/ ComposedInit) /\ [][Next]_vars

\* what n calls of __next__ give, from _iterator it and, when self.files is a
\* pipeline, its _iterator s
RECURSIVE Pass(_, _, _)
Pass(it, s, n) ==
    IF n = 0 THEN <<>>
    ELSE LET r == UploadFilesBase__next__(it, s)
         IN  <<r.res>> \o Pass(r.it, r.it.src, n - 1)

\* C16: a pipeline starts over with each iter(): whatever pass iter() cut
\* short, the pulls after it give what a pipeline never used gives, from the
\* first input on, and so does a size-policy pipeline over a traversal
\* pipeline (the traversal starts over too); next() with no iter() before it
\* starts from the first input; once a pass has ended, every next() with no
\* iter() between raises StopIteration.
C16_Restart ==
    pc = "pipeline" =>
        /\ out = Pass(NoIterator, NoSource.iterator, Len(out))
        /\ \A k, l \in 1..Len(out) :
               (k < l /\ out[k].exc = "StopIteration") => out[l].exc = "StopIteration"

C16_Witness ==
    /\ pc = "pipeline"
    /\ source.cls = "RecursiveFiles"
    /\ restarted
    /\ Len(out) = 3
    /\ out[1].type = "yield" /\ out[1].input = 1 /\ out[1].unit.cls = "File"
    /\ out[2].type = "yield" /\ out[2].input = 2
    /\ out[3].exc = "StopIteration"
    /\ source.iterator.done
====
